---- MODULE Spec2Model ----
(***************************************************************************)
(* A model of the treelock package (src/treelock.go): the hierarchical     *)
(* TreeLock and the flat SimpleTreeLock, each statement that touches       *)
(* shared state (a sync.Mutex, a sync.WaitGroup, a children map) being one *)
(* atomic step of the calling goroutine.                                   *)
(*                                                                         *)
(* sync.Mutex has no owner: Lock blocks while the mutex is locked, Unlock  *)
(* of an unlocked mutex is a fatal error, Unlock of a locked mutex         *)
(* succeeds whoever locked it.  sync.WaitGroup is a counter: Add changes   *)
(* it and panics when the result is negative, Wait blocks until it is 0.   *)
(* An unrecovered panic or fatal error aborts the process.                 *)
(***************************************************************************)
EXTENDS Integers, Sequences, FiniteSets, TLC

\* ------------------------------------------------------------------ bounds
NumThreads == 2

Threads == 1..NumThreads

\* The paths the goroutines of the single-path specifications lock.
Paths == { <<>>, <<"a">>, <<"b">>, <<"a", "b">>,
           <<"a", "b", "c">>, <<"a", "b", "d">> }

\* The paths the goroutines of the multi-path specifications lock.
ManyPaths == { <<"a">>, <<"b">>, <<"a", "b">> }

\* ------------------------------------------------------------------ paths
Prefix(p, n) == [i \in 1..(IF n < Len(p) THEN n ELSE Len(p)) |-> p[i]]

IsPrefix(p, q) == Len(p) <= Len(q) /\ Prefix(q, Len(p)) = p

Related(p, q) == IsPrefix(p, q) \/ IsPrefix(q, p)

PrefixesOf(S) == UNION { { Prefix(p, n) : n \in 0..Len(p) } : p \in S }

\* Every tree node a goroutine can address, named by its path from the root.
Nodes == PrefixesOf(Paths)

Root == <<>>

VARIABLES
    totalLock,   \* TreeLock.totalLock of each node: TRUE when locked
    totalwg,     \* TreeLock.totalwg of each node: the WaitGroup's counter
    locks,       \* TreeLock.locks: the nodes that exist (Root, and each child
                 \* stored in its parent's map)
    locksLock,   \* TreeLock.locksLock of each node: TRUE when locked
    pc,          \* each goroutine's position
    op,          \* the exported method each goroutine is in
    vals,        \* the method's argument: a sequence of paths
    vi,          \* LockMany/UnlockMany: the index in vals of the current path
    depth,       \* Lock/Unlock: how many segments of the path are consumed
    held,        \* the paths each goroutine holds: Lock returned, Unlock not called
    trapped,     \* the process has aborted (panic or fatal error)
    sTotalLock,  \* SimpleTreeLock.totalLock: TRUE when locked
    sTotalwg,    \* SimpleTreeLock.totalwg: the WaitGroup's counter
    sLocks       \* SimpleTreeLock.locks: each key's mutex, "nil" when the map
                 \* has no entry, else "unlocked" or "locked"

tree == <<totalLock, totalwg, locks, locksLock>>
simple == <<sTotalLock, sTotalwg, sLocks>>
thread == <<pc, op, vals, vi, depth, held>>
vars == <<totalLock, totalwg, locks, locksLock, pc, op, vals, vi, depth, held, trapped,
          sTotalLock, sTotalwg, sLocks>>

\* The path of the call in progress, and the node (the receiver T) it is at.
Val(t) == vals[t][vi[t]]
T(t) == Prefix(Val(t), depth[t])
Child(t) == Prefix(Val(t), depth[t] + 1)

Goto(t, l) == pc' = [pc EXCEPT ![t] = l]

\* NewTreeLock: a root with an unlocked mutex, a zero WaitGroup, an empty map.
NewTreeLock ==
    /\ totalLock = [n \in Nodes |-> FALSE]
    /\ totalwg = [n \in Nodes |-> 0]
    /\ locks = {Root}
    /\ locksLock = [n \in Nodes |-> FALSE]

\* The keys the goroutines of the SimpleTreeLock specifications lock.
Keys == {"a", "b"}

\* NewSimpleTreeLock: an unlocked mutex, a zero WaitGroup, an empty map.
NewSimpleTreeLock ==
    /\ sTotalLock = FALSE
    /\ sTotalwg = 0
    /\ sLocks = [k \in Keys |-> "nil"]

Init ==
    /\ NewTreeLock
    /\ NewSimpleTreeLock
    /\ pc = [t \in Threads |-> "idle"]
    /\ op = [t \in Threads |-> "none"]
    /\ vals = [t \in Threads |-> <<Root>>]
    /\ vi = [t \in Threads |-> 1]
    /\ depth = [t \in Threads |-> 0]
    /\ held = [t \in Threads |-> {}]
    /\ trapped = FALSE

\* The exported method returns to its caller: the goroutine is idle again and
\* its frame (the method, its arguments and indices) is gone.
Return(t) ==
    /\ pc' = [pc EXCEPT ![t] = "idle"]
    /\ op' = [op EXCEPT ![t] = "none"]
    /\ vals' = [vals EXCEPT ![t] = <<Root>>]
    /\ vi' = [vi EXCEPT ![t] = 1]
    /\ depth' = [depth EXCEPT ![t] = 0]

\* T.Lock(val) on the root returns: its caller now holds val. LockMany goes on
\* to its next path (`for _, val := range vals`); Lock and LockAll return.
LockReturn(t) ==
    /\ held' = [held EXCEPT ![t] = @ \cup {Val(t)}]
    /\ IF op[t] = "LockMany" /\ vi[t] < Len(vals[t])
         THEN /\ vi' = [vi EXCEPT ![t] = @ + 1]
              /\ depth' = [depth EXCEPT ![t] = 0]
              /\ pc' = [pc EXCEPT ![t] =
                          IF Len(vals[t][vi[t] + 1]) = 0
                            THEN "LockAll_totalLock" ELSE "Lock_totalLock"]
         ELSE /\ pc' = [pc EXCEPT ![t] = "locked"]
              /\ UNCHANGED <<vi, depth>>
    /\ UNCHANGED <<op, vals>>

\* T.Unlock(val) on the root returns. UnlockMany goes on to the path before
\* (`for i := len(vals) - 1; i >= 0; i--`), whose Unlock it calls; Unlock and
\* UnlockAll return.
UnlockReturn(t) ==
    IF op[t] = "UnlockMany" /\ vi[t] > 1
      THEN /\ vi' = [vi EXCEPT ![t] = @ - 1]
           /\ depth' = [depth EXCEPT ![t] = 0]
           /\ held' = [held EXCEPT ![t] = @ \ {vals[t][vi[t] - 1]}]
           /\ pc' = [pc EXCEPT ![t] =
                       IF Len(vals[t][vi[t] - 1]) = 0
                         THEN "UnlockAll_totalUnlock" ELSE "Unlock_Done"]
           /\ UNCHANGED <<op, vals>>
      ELSE Return(t) /\ UNCHANGED held

\* Lock(val) entered at the node `depth` segments down: `if len(val) == 0`.
LockEntry(p, d) == IF d = Len(p) THEN "LockAll_totalLock" ELSE "Lock_totalLock"
UnlockEntry(p, d) == IF d = Len(p) THEN "UnlockAll_totalUnlock" ELSE "Unlock_Done"

\* ------------------------------------------------------- TreeLock.Lock
\* T.totalLock.Lock()
Lock_totalLock(t) ==
    /\ ~trapped /\ pc[t] = "Lock_totalLock"
    /\ ~totalLock[T(t)]
    /\ totalLock' = [totalLock EXCEPT ![T(t)] = TRUE]
    /\ Goto(t, "Lock_locksLock")
    /\ UNCHANGED <<totalwg, locks, locksLock, op, vals, vi, depth, held, trapped, simple>>

\* T.locksLock.Lock(); get or create T.locks[val[0]]; lock := T.locks[val[0]]
Lock_locksLock(t) ==
    /\ ~trapped /\ pc[t] = "Lock_locksLock"
    /\ ~locksLock[T(t)]
    /\ locksLock' = [locksLock EXCEPT ![T(t)] = TRUE]
    /\ locks' = locks \cup {Child(t)}
    /\ Goto(t, "Lock_locksUnlock")
    /\ UNCHANGED <<totalLock, totalwg, op, vals, vi, depth, held, trapped, simple>>

\* Mutant: the gate is released here, before the session is counted.
Lock_locksUnlock_Release(t) ==
    /\ ~trapped /\ pc[t] = "Lock_locksUnlock"
    /\ locksLock' = [locksLock EXCEPT ![T(t)] = FALSE]
    /\ totalLock' = [totalLock EXCEPT ![T(t)] = FALSE]
    /\ Goto(t, "Lock_Add")
    /\ UNCHANGED <<totalwg, locks, op, vals, vi, depth, held, trapped, simple>>

\* T.locksLock.Unlock()
Lock_locksUnlock(t) ==
    /\ ~trapped /\ pc[t] = "Lock_locksUnlock"
    /\ locksLock' = [locksLock EXCEPT ![T(t)] = FALSE]
    /\ Goto(t, "Lock_Add")
    /\ UNCHANGED <<totalLock, totalwg, locks, op, vals, vi, depth, held, trapped, simple>>

\* Mutant: the session is not counted.
Lock_Add_Skip(t) ==
    /\ ~trapped /\ pc[t] = "Lock_Add"
    /\ Goto(t, "Lock_totalUnlock")
    /\ UNCHANGED <<tree, op, vals, vi, depth, held, trapped, simple>>

\* T.totalwg.Add(1)
Lock_Add(t) ==
    /\ ~trapped /\ pc[t] = "Lock_Add"
    /\ totalwg' = [totalwg EXCEPT ![T(t)] = @ + 1]
    /\ Goto(t, "Lock_totalUnlock")
    /\ UNCHANGED <<totalLock, locks, locksLock, op, vals, vi, depth, held, trapped, simple>>

\* Mutant: the gate is not released before descending.
Lock_totalUnlock_Keep(t) ==
    /\ ~trapped /\ pc[t] = "Lock_totalUnlock"
    /\ depth' = [depth EXCEPT ![t] = @ + 1]
    /\ Goto(t, LockEntry(Val(t), depth[t] + 1))
    /\ UNCHANGED <<tree, op, vals, vi, held, trapped, simple>>

\* T.totalLock.Unlock(); lock.Lock(val[1:])
Lock_totalUnlock(t) ==
    /\ ~trapped /\ pc[t] = "Lock_totalUnlock"
    /\ totalLock' = [totalLock EXCEPT ![T(t)] = FALSE]
    /\ depth' = [depth EXCEPT ![t] = @ + 1]
    /\ Goto(t, LockEntry(Val(t), depth[t] + 1))
    /\ UNCHANGED <<totalwg, locks, locksLock, op, vals, vi, held, trapped, simple>>

\* ---------------------------------------------------- TreeLock.LockAll
\* Mutant: LockAll does not take the gate.
LockAll_totalLock_Skip(t) ==
    /\ ~trapped /\ pc[t] = "LockAll_totalLock"
    /\ Goto(t, "LockAll_Wait")
    /\ UNCHANGED <<tree, op, vals, vi, depth, held, trapped, simple>>

\* T.totalLock.Lock()
LockAll_totalLock(t) ==
    /\ ~trapped /\ pc[t] = "LockAll_totalLock"
    /\ ~totalLock[T(t)]
    /\ totalLock' = [totalLock EXCEPT ![T(t)] = TRUE]
    /\ Goto(t, "LockAll_Wait")
    /\ UNCHANGED <<totalwg, locks, locksLock, op, vals, vi, depth, held, trapped, simple>>

\* Mutant: LockAll returns without waiting for the counter to drain.
LockAll_Wait_NoWait(t) ==
    /\ ~trapped /\ pc[t] = "LockAll_Wait"
    /\ LockReturn(t)
    /\ UNCHANGED <<tree, trapped, simple>>

\* T.totalwg.Wait(), and the return to the caller of Lock or LockAll.
LockAll_Wait(t) ==
    /\ ~trapped /\ pc[t] = "LockAll_Wait"
    /\ totalwg[T(t)] = 0
    /\ LockReturn(t)
    /\ UNCHANGED <<tree, trapped, simple>>

\* ----------------------------------------------------- TreeLock.Unlock
\* Mutant: Unlock leaves the counter as it is.
Unlock_Done_Skip(t) ==
    /\ ~trapped /\ pc[t] = "Unlock_Done"
    /\ Goto(t, "Unlock_locksLock")
    /\ UNCHANGED <<tree, op, vals, vi, depth, held, trapped, simple>>

\* Mutant: the counter of the child is decremented, not the receiver's.
Unlock_Done_Child(t) ==
    /\ ~trapped /\ pc[t] = "Unlock_Done"
    /\ totalwg' = [totalwg EXCEPT ![Child(t)] = @ - 1]
    /\ IF totalwg[Child(t)] - 1 < 0
         THEN trapped' = TRUE /\ Goto(t, "trap")
         ELSE trapped' = trapped /\ Goto(t, "Unlock_locksLock")
    /\ UNCHANGED <<totalLock, locks, locksLock, op, vals, vi, depth, held, simple>>

\* T.totalwg.Done(): the counter is decremented, a negative result panics.
Unlock_Done(t) ==
    /\ ~trapped /\ pc[t] = "Unlock_Done"
    /\ totalwg' = [totalwg EXCEPT ![T(t)] = @ - 1]
    /\ IF totalwg[T(t)] - 1 < 0
         THEN trapped' = TRUE /\ Goto(t, "trap")
         ELSE trapped' = trapped /\ Goto(t, "Unlock_locksLock")
    /\ UNCHANGED <<totalLock, locks, locksLock, op, vals, vi, depth, held, simple>>

\* T.locksLock.Lock(); lock := T.locks[val[0]]
Unlock_locksLock(t) ==
    /\ ~trapped /\ pc[t] = "Unlock_locksLock"
    /\ ~locksLock[T(t)]
    /\ locksLock' = [locksLock EXCEPT ![T(t)] = TRUE]
    /\ Goto(t, "Unlock_locksUnlock")
    /\ UNCHANGED <<totalLock, totalwg, locks, op, vals, vi, depth, held, trapped, simple>>

\* T.locksLock.Unlock(); lock.Unlock(val[1:]): a nil lock (no such child) is
\* dereferenced by the callee's first statement, which panics.
Unlock_locksUnlock(t) ==
    /\ ~trapped /\ pc[t] = "Unlock_locksUnlock"
    /\ locksLock' = [locksLock EXCEPT ![T(t)] = FALSE]
    /\ depth' = [depth EXCEPT ![t] = @ + 1]
    /\ IF Child(t) \in locks
         THEN trapped' = trapped /\ Goto(t, UnlockEntry(Val(t), depth[t] + 1))
         ELSE trapped' = TRUE /\ Goto(t, "trap")
    /\ UNCHANGED <<totalLock, totalwg, locks, op, vals, vi, held, simple>>

\* -------------------------------------------------- TreeLock.UnlockAll
\* Mutant: UnlockAll returns and leaves the gate locked.
UnlockAll_totalUnlock_Keep(t) ==
    /\ ~trapped /\ pc[t] = "UnlockAll_totalUnlock"
    /\ UnlockReturn(t)
    /\ UNCHANGED <<tree, trapped, simple>>

\* T.totalLock.Unlock(): fatal when the mutex is not locked; and the return
\* to the caller of Unlock or UnlockAll.
UnlockAll_totalUnlock(t) ==
    /\ ~trapped /\ pc[t] = "UnlockAll_totalUnlock"
    /\ IF totalLock[T(t)]
         THEN /\ totalLock' = [totalLock EXCEPT ![T(t)] = FALSE]
              /\ trapped' = trapped
              /\ UnlockReturn(t)
         ELSE /\ totalLock' = totalLock
              /\ trapped' = TRUE
              /\ Goto(t, "trap")
              /\ UNCHANGED <<op, vals, vi, depth, held>>
    /\ UNCHANGED <<totalwg, locks, locksLock, simple>>

\* ------------------------------------------------------------ callers
\* A goroutine calls T.Lock(p) on the root.
CallLock(t, p) ==
    /\ ~trapped /\ pc[t] = "idle"
    /\ op' = [op EXCEPT ![t] = "Lock"]
    /\ vals' = [vals EXCEPT ![t] = <<p>>]
    /\ vi' = [vi EXCEPT ![t] = 1]
    /\ depth' = [depth EXCEPT ![t] = 0]
    /\ Goto(t, LockEntry(p, 0))
    /\ UNCHANGED <<tree, held, trapped, simple>>

\* A goroutine calls T.LockAll() on the root.
CallLockAll(t) ==
    /\ ~trapped /\ pc[t] = "idle"
    /\ op' = [op EXCEPT ![t] = "LockAll"]
    /\ vals' = [vals EXCEPT ![t] = <<Root>>]
    /\ vi' = [vi EXCEPT ![t] = 1]
    /\ depth' = [depth EXCEPT ![t] = 0]
    /\ Goto(t, "LockAll_totalLock")
    /\ UNCHANGED <<tree, held, trapped, simple>>

\* The holder of p calls T.Unlock(p) on the root.
CallUnlock(t) ==
    /\ ~trapped /\ pc[t] = "locked" /\ op[t] = "Lock"
    /\ held' = [held EXCEPT ![t] = @ \ {Val(t)}]
    /\ op' = [op EXCEPT ![t] = "Unlock"]
    /\ depth' = [depth EXCEPT ![t] = 0]
    /\ Goto(t, UnlockEntry(Val(t), 0))
    /\ UNCHANGED <<tree, vals, vi, trapped, simple>>

\* The holder of the whole tree calls T.UnlockAll() on the root.
CallUnlockAll(t) ==
    /\ ~trapped /\ pc[t] = "locked" /\ op[t] = "LockAll"
    /\ held' = [held EXCEPT ![t] = @ \ {Root}]
    /\ op' = [op EXCEPT ![t] = "UnlockAll"]
    /\ depth' = [depth EXCEPT ![t] = 0]
    /\ Goto(t, "UnlockAll_totalUnlock")
    /\ UNCHANGED <<tree, vals, vi, trapped, simple>>

LockStep(t) ==
    \/ Lock_totalLock(t) \/ Lock_locksLock(t) \/ Lock_locksUnlock(t)
    \/ Lock_Add(t) \/ Lock_totalUnlock(t)
    \/ LockAll_totalLock(t) \/ LockAll_Wait(t)

UnlockStep(t) ==
    \/ Unlock_Done(t) \/ Unlock_locksLock(t) \/ Unlock_locksUnlock(t)
    \/ UnlockAll_totalUnlock(t)

Next ==
    \E t \in Threads :
        \/ \E p \in Paths : CallLock(t, p)
        \/ CallLockAll(t)
        \/ CallUnlock(t)
        \/ CallUnlockAll(t)
        \/ LockStep(t)
        \/ UnlockStep(t)

Spec == Init /\ [][Next]_vars

\* ------------------------------------------- Sorter.Less, sort.SliceStable
\* Go compares strings bytewise; the segments here are single bytes.
Byte(x) == CASE x = "a" -> 97 [] x = "b" -> 98 [] x = "c" -> 99 [] x = "d" -> 100

RECURSIVE LessFrom(_, _, _, _)
\* The loop `for k := 0; k < m; k++` of Less from index k (1-based), with s
\* the result when the loop ends.
LessFrom(p, q, k, s) ==
    IF k > (IF s THEN Len(p) ELSE Len(q)) THEN s
    ELSE IF Byte(p[k]) < Byte(q[k]) THEN TRUE
    ELSE IF Byte(p[k]) > Byte(q[k]) THEN FALSE
    ELSE LessFrom(p, q, k + 1, s)

\* Mutant: paths are compared by their lengths only, the longer one first.
Less_ByLength(p, q) == Len(p) > Len(q)

\* Sorter.Less(i, j) with p = S[i], q = S[j].
Less(p, q) == LessFrom(p, q, 1, Len(p) < Len(q))

RECURSIVE Insert(_, _)
\* x inserted into the sorted seq after every element it is not Less than.
Insert(x, seq) ==
    IF seq = <<>> THEN <<x>>
    ELSE IF Less(x, seq[1]) THEN <<x>> \o seq
    ELSE <<seq[1]>> \o Insert(x, Tail(seq))

RECURSIVE SortFrom(_, _)
SortFrom(seq, sorted) ==
    IF seq = <<>> THEN sorted ELSE SortFrom(Tail(seq), Insert(seq[1], sorted))

\* Mutant: the arguments are locked in the order given.
SliceStable_Unsorted(seq) == seq

\* sort.SliceStable(vals, Sorter(vals).Less): the stable sort of seq by Less.
SliceStable(seq) == SortFrom(seq, <<>>)

\* The argument lists naming the paths of S once each, in any order.
Perms(S) ==
    { f \in [1..Cardinality(S) -> S] : \A i, j \in DOMAIN f : f[i] = f[j] => i = j }

PrefixFree(S) == \A p \in S : \A q \in S \ {p} : ~IsPrefix(p, q)

\* The path sets LockMany is called with: non-empty and prefix-free.
ManySets ==
    { S \in SUBSET ManyPaths : S # {} /\ PrefixFree(S) }

Range(seq) == { seq[i] : i \in DOMAIN seq }

\* ------------------------------------------ TreeLock.LockMany, UnlockMany
\* T.LockMany(args...): sort, then Lock each path in turn.
CallLockMany(t, args) ==
    /\ ~trapped /\ pc[t] = "idle"
    /\ op' = [op EXCEPT ![t] = "LockMany"]
    /\ vals' = [vals EXCEPT ![t] = SliceStable(args)]
    /\ vi' = [vi EXCEPT ![t] = 1]
    /\ depth' = [depth EXCEPT ![t] = 0]
    /\ Goto(t, LockEntry(SliceStable(args)[1], 0))
    /\ UNCHANGED <<tree, held, trapped, simple>>

\* T.UnlockMany(args...) by the holder of those paths: sort, then Unlock each
\* path from the last to the first.
CallUnlockMany(t, args) ==
    /\ ~trapped /\ pc[t] = "locked" /\ op[t] = "LockMany"
    /\ Range(args) = Range(vals[t])
    /\ op' = [op EXCEPT ![t] = "UnlockMany"]
    /\ vals' = [vals EXCEPT ![t] = SliceStable(args)]
    /\ vi' = [vi EXCEPT ![t] = Len(args)]
    /\ depth' = [depth EXCEPT ![t] = 0]
    /\ held' = [held EXCEPT ![t] = @ \ {SliceStable(args)[Len(args)]}]
    /\ Goto(t, UnlockEntry(SliceStable(args)[Len(args)], 0))
    /\ UNCHANGED <<tree, trapped, simple>>

\* Every goroutine inside LockMany .. UnlockMany uses the path set S.
SameSet(S) ==
    \A u \in Threads : op[u] \in {"LockMany", "UnlockMany"} => Range(vals[u]) = S

\* What goroutine t does once LockMany is called: the steps of the call, the
\* UnlockMany that follows it, and its steps.
ManyProgress(t) ==
    \/ \E args \in Perms(Range(vals[t])) : CallUnlockMany(t, args)
    \/ LockStep(t)
    \/ UnlockStep(t)

NextMany == \E t \in Threads :
    \/ \E S \in ManySets : SameSet(S) /\ \E args \in Perms(S) : CallLockMany(t, args)
    \/ ManyProgress(t)

\* Goroutines that LockMany and UnlockMany one common path set at a time.
SpecMany == Init /\ [][NextMany]_vars

\* sync.Mutex hands a mutex to a goroutine that keeps waiting for it
\* (starvation mode), the scheduler runs every runnable goroutine, and a
\* goroutine that holds paths goes on to unlock them. Nothing makes an idle
\* goroutine call again.
FairSpecMany == SpecMany /\ \A t \in Threads : SF_vars(ManyProgress(t))

\* The paths the goroutines of the fair single-path specification lock.
FairPaths == { <<>>, <<"a">>, <<"b">>, <<"a", "b">> }

\* What goroutine t does once Lock or LockAll is called.
Progress(t) ==
    \/ CallUnlock(t)
    \/ CallUnlockAll(t)
    \/ LockStep(t)
    \/ UnlockStep(t)

NextFair == \E t \in Threads :
    \/ \E p \in FairPaths : CallLock(t, p)
    \/ CallLockAll(t)
    \/ Progress(t)

\* Goroutines that hold one path, or the whole tree, at a time, fairly run.
FairSpec == Init /\ [][NextFair]_vars /\ \A t \in Threads : SF_vars(Progress(t))

\* ========================================================= SimpleTreeLock
\* The key of the call in progress (Lock, Unlock) or of the loop's index.
Key(t) == vals[t][vi[t]]

RECURSIVE InsertString(_, _)
InsertString(x, seq) ==
    IF seq = <<>> THEN <<x>>
    ELSE IF Byte(x) < Byte(seq[1]) THEN <<x>> \o seq
    ELSE <<seq[1]>> \o InsertString(x, Tail(seq))

RECURSIVE SortStringsFrom(_, _)
SortStringsFrom(seq, sorted) ==
    IF seq = <<>> THEN sorted
    ELSE SortStringsFrom(Tail(seq), InsertString(seq[1], sorted))

\* sort.Strings(vals)
SortStrings(seq) == SortStringsFrom(seq, <<>>)

\* `if _, ok := T.locks[val]; !ok { T.locks[val] = MutexGenerator(...) }` for
\* every key of K.
MakeLocks(K) == [k \in Keys |-> IF k \in K /\ sLocks[k] = "nil" THEN "unlocked" ELSE sLocks[k]]

\* ---------------------------------------------------- SimpleTreeLock.Lock
\* T.totalLock.Lock(); create T.locks[val] when missing
SimpleLock_totalLock(t) ==
    /\ ~trapped /\ pc[t] = "SimpleLock_totalLock"
    /\ ~sTotalLock
    /\ sTotalLock' = TRUE
    /\ sLocks' = MakeLocks({Key(t)})
    /\ Goto(t, "SimpleLock_Add")
    /\ UNCHANGED <<tree, sTotalwg, op, vals, vi, depth, held, trapped>>

\* T.totalwg.Add(1)
SimpleLock_Add(t) ==
    /\ ~trapped /\ pc[t] = "SimpleLock_Add"
    /\ sTotalwg' = sTotalwg + 1
    /\ Goto(t, "SimpleLock_totalUnlock")
    /\ UNCHANGED <<tree, sTotalLock, sLocks, op, vals, vi, depth, held, trapped>>

\* lock := T.locks[val]; T.totalLock.Unlock()
SimpleLock_totalUnlock(t) ==
    /\ ~trapped /\ pc[t] = "SimpleLock_totalUnlock"
    /\ sTotalLock' = FALSE
    /\ Goto(t, "SimpleLock_Lock")
    /\ UNCHANGED <<tree, sTotalwg, sLocks, op, vals, vi, depth, held, trapped>>

\* lock.Lock(), and the return: the caller holds val.
SimpleLock_Lock(t) ==
    /\ ~trapped /\ pc[t] = "SimpleLock_Lock"
    /\ sLocks[Key(t)] = "unlocked"
    /\ sLocks' = [sLocks EXCEPT ![Key(t)] = "locked"]
    /\ held' = [held EXCEPT ![t] = @ \cup {Key(t)}]
    /\ Goto(t, "locked")
    /\ UNCHANGED <<tree, sTotalLock, sTotalwg, op, vals, vi, depth, trapped>>

\* -------------------------------------------------- SimpleTreeLock.Unlock
\* T.totalwg.Done()
SimpleUnlock_Done(t) ==
    /\ ~trapped /\ pc[t] = "SimpleUnlock_Done"
    /\ sTotalwg' = sTotalwg - 1
    /\ IF sTotalwg - 1 < 0
         THEN trapped' = TRUE /\ Goto(t, "trap")
         ELSE trapped' = trapped /\ Goto(t, "SimpleUnlock_totalLock")
    /\ UNCHANGED <<tree, sTotalLock, sLocks, op, vals, vi, depth, held>>

\* T.totalLock.Lock(); lock := T.locks[val]
SimpleUnlock_totalLock(t) ==
    /\ ~trapped /\ pc[t] = "SimpleUnlock_totalLock"
    /\ ~sTotalLock
    /\ sTotalLock' = TRUE
    /\ Goto(t, "SimpleUnlock_totalUnlock")
    /\ UNCHANGED <<tree, sTotalwg, sLocks, op, vals, vi, depth, held, trapped>>

\* T.totalLock.Unlock()
SimpleUnlock_totalUnlock(t) ==
    /\ ~trapped /\ pc[t] = "SimpleUnlock_totalUnlock"
    /\ sTotalLock' = FALSE
    /\ Goto(t, "SimpleUnlock_Unlock")
    /\ UNCHANGED <<tree, sTotalwg, sLocks, op, vals, vi, depth, held, trapped>>

\* lock.Unlock(): a nil lock panics, an unlocked mutex is a fatal error.
SimpleUnlock_Unlock(t) ==
    /\ ~trapped /\ pc[t] = "SimpleUnlock_Unlock"
    /\ IF sLocks[Key(t)] = "locked"
         THEN /\ sLocks' = [sLocks EXCEPT ![Key(t)] = "unlocked"]
              /\ trapped' = trapped
              /\ Return(t)
         ELSE /\ sLocks' = sLocks
              /\ trapped' = TRUE
              /\ Goto(t, "trap")
              /\ UNCHANGED <<op, vals, vi, depth>>
    /\ UNCHANGED <<tree, sTotalLock, sTotalwg, held>>

\* ------------------------------------------------ SimpleTreeLock.LockMany
\* T.totalLock.Lock(); create the missing T.locks[val] of every val
SimpleLockMany_totalLock(t) ==
    /\ ~trapped /\ pc[t] = "SimpleLockMany_totalLock"
    /\ ~sTotalLock
    /\ sTotalLock' = TRUE
    /\ sLocks' = MakeLocks(Range(vals[t]))
    /\ Goto(t, "SimpleLockMany_Add")
    /\ UNCHANGED <<tree, sTotalwg, op, vals, vi, depth, held, trapped>>

\* T.totalwg.Add(len(vals))
SimpleLockMany_Add(t) ==
    /\ ~trapped /\ pc[t] = "SimpleLockMany_Add"
    /\ sTotalwg' = sTotalwg + Len(vals[t])
    /\ Goto(t, "SimpleLockMany_totalUnlock")
    /\ UNCHANGED <<tree, sTotalLock, sLocks, op, vals, vi, depth, held, trapped>>

\* locks[i] = T.locks[val] for every val; T.totalLock.Unlock()
SimpleLockMany_totalUnlock(t) ==
    /\ ~trapped /\ pc[t] = "SimpleLockMany_totalUnlock"
    /\ sTotalLock' = FALSE
    /\ vi' = [vi EXCEPT ![t] = 1]
    /\ Goto(t, "SimpleLockMany_Lock")
    /\ UNCHANGED <<tree, sTotalwg, sLocks, op, vals, depth, held, trapped>>

\* `for _, lock := range locks { lock.Lock() }`: one iteration; after the last
\* LockMany returns and its caller holds every val.
SimpleLockMany_Lock(t) ==
    /\ ~trapped /\ pc[t] = "SimpleLockMany_Lock"
    /\ sLocks[Key(t)] = "unlocked"
    /\ sLocks' = [sLocks EXCEPT ![Key(t)] = "locked"]
    /\ IF vi[t] < Len(vals[t])
         THEN /\ vi' = [vi EXCEPT ![t] = @ + 1]
              /\ UNCHANGED <<pc, held>>
         ELSE /\ held' = [held EXCEPT ![t] = @ \cup Range(vals[t])]
              /\ Goto(t, "locked")
              /\ vi' = vi
    /\ UNCHANGED <<tree, sTotalLock, sTotalwg, op, vals, depth, trapped>>

\* ---------------------------------------------- SimpleTreeLock.UnlockMany
\* T.totalLock.Lock()
SimpleUnlockMany_totalLock(t) ==
    /\ ~trapped /\ pc[t] = "SimpleUnlockMany_totalLock"
    /\ ~sTotalLock
    /\ sTotalLock' = TRUE
    /\ vi' = [vi EXCEPT ![t] = Len(vals[t])]
    /\ Goto(t, "SimpleUnlockMany_Unlock")
    /\ UNCHANGED <<tree, sTotalwg, sLocks, op, vals, depth, held, trapped>>

\* Mutant: the first loop only counts down, it unlocks no key mutex.
SimpleUnlockMany_Unlock_Skip(t) ==
    /\ ~trapped /\ pc[t] = "SimpleUnlockMany_Unlock"
    /\ Goto(t, "SimpleUnlockMany_Done")
    /\ UNCHANGED <<tree, simple, op, vals, vi, depth, held, trapped>>

\* first loop, `T.locks[vals[i]].Unlock()`
SimpleUnlockMany_Unlock(t) ==
    /\ ~trapped /\ pc[t] = "SimpleUnlockMany_Unlock"
    /\ IF sLocks[Key(t)] = "locked"
         THEN /\ sLocks' = [sLocks EXCEPT ![Key(t)] = "unlocked"]
              /\ trapped' = trapped
              /\ Goto(t, "SimpleUnlockMany_Done")
         ELSE /\ sLocks' = sLocks
              /\ trapped' = TRUE
              /\ Goto(t, "trap")
    /\ UNCHANGED <<tree, sTotalLock, sTotalwg, op, vals, vi, depth, held>>

\* first loop, `T.totalwg.Done()`, and `i--`
SimpleUnlockMany_Done(t) ==
    /\ ~trapped /\ pc[t] = "SimpleUnlockMany_Done"
    /\ sTotalwg' = sTotalwg - 1
    /\ IF sTotalwg - 1 < 0
         THEN trapped' = TRUE /\ Goto(t, "trap") /\ vi' = vi
         ELSE /\ trapped' = trapped
              /\ IF vi[t] > 1
                   THEN vi' = [vi EXCEPT ![t] = @ - 1] /\ Goto(t, "SimpleUnlockMany_Unlock")
                   ELSE vi' = vi /\ Goto(t, "SimpleUnlockMany_totalUnlock")
    /\ UNCHANGED <<tree, sTotalLock, sLocks, op, vals, depth, held>>

\* locks[i] = T.locks[val] for every val; T.totalLock.Unlock()
SimpleUnlockMany_totalUnlock(t) ==
    /\ ~trapped /\ pc[t] = "SimpleUnlockMany_totalUnlock"
    /\ sTotalLock' = FALSE
    /\ vi' = [vi EXCEPT ![t] = 1]
    /\ Goto(t, "SimpleUnlockMany_Unlock2")
    /\ UNCHANGED <<tree, sTotalwg, sLocks, op, vals, depth, held, trapped>>

\* second loop, `for _, lock := range locks { lock.Unlock() }`: one iteration;
\* after the last UnlockMany returns.
SimpleUnlockMany_Unlock2(t) ==
    /\ ~trapped /\ pc[t] = "SimpleUnlockMany_Unlock2"
    /\ IF sLocks[Key(t)] = "locked"
         THEN /\ sLocks' = [sLocks EXCEPT ![Key(t)] = "unlocked"]
              /\ trapped' = trapped
              /\ IF vi[t] < Len(vals[t])
                   THEN vi' = [vi EXCEPT ![t] = @ + 1] /\ UNCHANGED <<pc, op, vals, depth>>
                   ELSE Return(t)
         ELSE /\ sLocks' = sLocks
              /\ trapped' = TRUE
              /\ Goto(t, "trap")
              /\ UNCHANGED <<op, vals, vi, depth>>
    /\ UNCHANGED <<tree, sTotalLock, sTotalwg, held>>

\* ------------------------------------- SimpleTreeLock.LockAll, UnlockAll
\* T.totalLock.Lock()
SimpleLockAll_totalLock(t) ==
    /\ ~trapped /\ pc[t] = "SimpleLockAll_totalLock"
    /\ ~sTotalLock
    /\ sTotalLock' = TRUE
    /\ Goto(t, "SimpleLockAll_Wait")
    /\ UNCHANGED <<tree, sTotalwg, sLocks, op, vals, vi, depth, held, trapped>>

\* T.totalwg.Wait(), and the return: the caller holds the all-lock.
SimpleLockAll_Wait(t) ==
    /\ ~trapped /\ pc[t] = "SimpleLockAll_Wait"
    /\ sTotalwg = 0
    /\ Goto(t, "locked")
    /\ UNCHANGED <<tree, simple, op, vals, vi, depth, held, trapped>>

\* T.totalLock.Unlock()
SimpleUnlockAll_totalUnlock(t) ==
    /\ ~trapped /\ pc[t] = "SimpleUnlockAll_totalUnlock"
    /\ IF sTotalLock
         THEN sTotalLock' = FALSE /\ trapped' = trapped /\ Return(t)
         ELSE /\ sTotalLock' = sTotalLock /\ trapped' = TRUE /\ Goto(t, "trap")
              /\ UNCHANGED <<op, vals, vi, depth>>
    /\ UNCHANGED <<tree, sTotalwg, sLocks, held>>

\* ------------------------------------------------ SimpleTreeLock callers
\* An exported method of SimpleTreeLock is called with the sorted keys ks.
SimpleCall(t, method, ks, entry) ==
    /\ ~trapped
    /\ op' = [op EXCEPT ![t] = method]
    /\ vals' = [vals EXCEPT ![t] = ks]
    /\ vi' = [vi EXCEPT ![t] = 1]
    /\ Goto(t, entry)
    /\ UNCHANGED <<tree, simple, depth, trapped>>

CallSimpleLock(t, k) ==
    /\ pc[t] = "idle"
    /\ SimpleCall(t, "SimpleLock", <<k>>, "SimpleLock_totalLock")
    /\ UNCHANGED held

\* The holder of val calls Unlock(val).
CallSimpleUnlock(t) ==
    /\ pc[t] = "locked" /\ op[t] = "SimpleLock"
    /\ SimpleCall(t, "SimpleUnlock", vals[t], "SimpleUnlock_Done")
    /\ held' = [held EXCEPT ![t] = {}]

\* LockMany(args...): `sort.Strings(vals)` comes first.
CallSimpleLockMany(t, args) ==
    /\ pc[t] = "idle"
    /\ SimpleCall(t, "SimpleLockMany", SortStrings(args), "SimpleLockMany_totalLock")
    /\ UNCHANGED held

\* The holder of the keys calls UnlockMany with them, in any order.
CallSimpleUnlockMany(t, args) ==
    /\ pc[t] = "locked" /\ op[t] = "SimpleLockMany"
    /\ SimpleCall(t, "SimpleUnlockMany", SortStrings(args), "SimpleUnlockMany_totalLock")
    /\ held' = [held EXCEPT ![t] = {}]

CallSimpleLockAll(t) ==
    /\ pc[t] = "idle"
    /\ SimpleCall(t, "SimpleLockAll", <<>>, "SimpleLockAll_totalLock")
    /\ UNCHANGED held

\* The holder of the all-lock calls UnlockAll.
CallSimpleUnlockAll(t) ==
    /\ pc[t] = "locked" /\ op[t] = "SimpleLockAll"
    /\ SimpleCall(t, "SimpleUnlockAll", <<>>, "SimpleUnlockAll_totalUnlock")
    /\ UNCHANGED held

SimpleAcquireStep(t) ==
    \/ SimpleLock_totalLock(t) \/ SimpleLock_Add(t)
    \/ SimpleLock_totalUnlock(t) \/ SimpleLock_Lock(t)
    \/ SimpleLockMany_totalLock(t) \/ SimpleLockMany_Add(t)
    \/ SimpleLockMany_totalUnlock(t) \/ SimpleLockMany_Lock(t)
    \/ SimpleLockAll_totalLock(t) \/ SimpleLockAll_Wait(t)

SimpleReleaseStep(t) ==
    \/ SimpleUnlock_Done(t) \/ SimpleUnlock_totalLock(t)
    \/ SimpleUnlock_totalUnlock(t) \/ SimpleUnlock_Unlock(t)
    \/ SimpleUnlockMany_totalLock(t) \/ SimpleUnlockMany_Unlock(t)
    \/ SimpleUnlockMany_Done(t) \/ SimpleUnlockMany_totalUnlock(t)
    \/ SimpleUnlockMany_Unlock2(t)
    \/ SimpleUnlockAll_totalUnlock(t)

NextSimple == \E t \in Threads :
    \/ \E k \in Keys : CallSimpleLock(t, k)
    \/ CallSimpleUnlock(t)
    \/ \E K \in SUBSET Keys \ {{}} : \E args \in Perms(K) : CallSimpleLockMany(t, args)
    \/ \E args \in Perms(Range(vals[t])) : CallSimpleUnlockMany(t, args)
    \/ CallSimpleLockAll(t)
    \/ CallSimpleUnlockAll(t)
    \/ SimpleAcquireStep(t)
    \/ SimpleReleaseStep(t)

\* Goroutines using one SimpleTreeLock, every release matching an acquisition.
SpecSimple == Init /\ [][NextSimple]_vars

\* ------------------------------------------ LockMany on different path sets
\* The paths of the goroutines that each lock a path set of their own.
OwnPaths == { <<"b">>, <<"a", "b">>, <<"a", "b", "c">>, <<"a", "b", "d">> }

\* Their path sets: non-empty and prefix-free, each on its own.
OwnSets == { S \in SUBSET OwnPaths : S # {} /\ PrefixFree(S) }

NextOwn == \E t \in Threads :
    \/ \E S \in OwnSets : \E args \in Perms(S) : CallLockMany(t, args)
    \/ ManyProgress(t)

\* Goroutines that LockMany and UnlockMany, each a path set of its own choice.
SpecOwn == Init /\ [][NextOwn]_vars

\* ------------------------------------------- LockMany and ancestor locks
\* The paths LockMany is called with, two or more at a time, and their
\* common ancestors, which other goroutines lock.
LeafPaths == { <<"b">>, <<"a", "b", "c">>, <<"a", "b", "d">> }
AncestorPaths == { <<>>, <<"a">>, <<"a", "b">> }

LeafSets == { S \in SUBSET LeafPaths : Cardinality(S) >= 2 /\ PrefixFree(S) }

\* What goroutine t does once any acquiring call is made: its steps, and the
\* release that matches it with its steps.
AnyProgress(t) ==
    \/ CallUnlock(t)
    \/ CallUnlockAll(t)
    \/ \E args \in Perms(Range(vals[t])) : CallUnlockMany(t, args)
    \/ LockStep(t)
    \/ UnlockStep(t)

NextAncestor == \E t \in Threads :
    \/ \E S \in LeafSets : \E args \in Perms(S) : CallLockMany(t, args)
    \/ \E p \in AncestorPaths : CallLock(t, p)
    \/ CallLockAll(t)
    \/ AnyProgress(t)

\* Goroutines that LockMany several leaves beside goroutines that Lock a
\* common ancestor of them or LockAll the root.
SpecAncestor == Init /\ [][NextAncestor]_vars


\* ------------------------------------------------- sorting the arguments
\* The longest argument list of the sorting specification.
MaxArgs == 3

\* The paths its argument lists are made of.
SortPaths == { <<>>, <<"a">>, <<"b">>, <<"a", "b">>, <<"a", "c">> }

\* The argument lists: any paths, repeated or not, in any order.
ArgLists == UNION { [1..n -> SortPaths] : n \in 1..MaxArgs }

\* The orders in which a caller can pass the paths of seq.
PermsOfSeq(seq) == { [i \in DOMAIN seq |-> seq[f[i]]] : f \in Perms(DOMAIN seq) }

\* Every goroutine is about to sort its arguments, the same paths for all of
\* them, each in an order of its own.
InitSort ==
    /\ NewTreeLock
    /\ NewSimpleTreeLock
    /\ \E seq \in ArgLists : \E others \in [Threads \ {1} -> PermsOfSeq(seq)] :
          vals = [t \in Threads |-> IF t = 1 THEN seq ELSE others[t]]
    /\ pc = [t \in Threads |-> "unsorted"]
    /\ op = [t \in Threads |-> "Sort"]
    /\ vi = [t \in Threads |-> 1]
    /\ depth = [t \in Threads |-> 0]
    /\ held = [t \in Threads |-> {}]
    /\ trapped = FALSE

\* sort.SliceStable(vals, Sorter(vals).Less)
SortArgs(t) ==
    /\ pc[t] = "unsorted"
    /\ vals' = [vals EXCEPT ![t] = SliceStable(@)]
    /\ Goto(t, "sorted")
    /\ UNCHANGED <<tree, simple, op, vi, depth, held, trapped>>

NextSort == \E t \in Threads : SortArgs(t)

SpecSort == InitSort /\ [][NextSort]_vars

\* ------------------------------------------------ overlapping LockMany
\* The argument lists with two paths of which one is a prefix of the other,
\* or the same path twice.
OverlapLists ==
    { args \in UNION { [1..n -> ManyPaths \cup {Root}] : n \in 2..MaxArgs } :
        \E i, j \in DOMAIN args : i < j /\ Related(args[i], args[j]) }

\* A goroutine calls LockMany with overlapping paths while no other goroutine
\* uses the lock. The other goroutines are idle, not blocked: the Go runtime
\* reports a deadlock only when no goroutine of the process can run.
CallLockManyOverlap(t, args) ==
    /\ \A u \in Threads \ {t} : pc[u] = "idle"
    /\ CallLockMany(t, args)

NextOverlap == \E t \in Threads :
    \/ \E args \in OverlapLists : CallLockManyOverlap(t, args)
    \/ LockStep(t)

SpecOverlap == Init /\ [][NextOverlap]_vars

\* ------------------------------------------------------------ newTreeLock
\* The fields of the node at path n: `val` is its own segment ("" for the
\* root), `parent` is nil in NewTreeLock and in newTreeLock alike (both
\* constructors store nil), `depth` is the number of segments of n.
NodeVal(n) == IF n = Root THEN "" ELSE n[Len(n)]
NodeParent(n) == "nil"

RECURSIVE PathLoop(_, _, _)
\* `for pt.parent != nil && i >= 0 { path[i] = pt.val; i--; pt = pt.parent }`
\* with i the 0-based index of the code.
PathLoop(path, i, pt) ==
    IF NodeParent(pt) # "nil" /\ i >= 0
      THEN PathLoop([path EXCEPT ![i + 1] = NodeVal(pt)], i - 1, NodeParent(pt))
      ELSE path

\* The path newTreeLock(val, parent, depth) passes to MutexGenerator and to
\* WaitGroupGenerator: `make([]string, depth)` filled by the loop.
newTreeLockPath(val, parent, d) == PathLoop([k \in 1..d |-> ""], d - 1, parent)

\* The path the generators were called with when node n was made: by
\* NewTreeLock for the root, by newTreeLock(val[0], T, T.depth+1) for a child.
GeneratorPath(n) ==
    IF n = Root THEN <<>>
    ELSE newTreeLockPath(NodeVal(n), Prefix(n, Len(n) - 1), Len(n))

\* ---------------------------------------------------------------- misuse
\* An idle goroutine, which holds nothing, calls T.Unlock(p) on the root.
CallUnlockUnmatched(t, p) ==
    /\ ~trapped /\ pc[t] = "idle"
    /\ op' = [op EXCEPT ![t] = "UnmatchedUnlock"]
    /\ vals' = [vals EXCEPT ![t] = <<p>>]
    /\ vi' = [vi EXCEPT ![t] = 1]
    /\ depth' = [depth EXCEPT ![t] = 0]
    /\ Goto(t, UnlockEntry(p, 0))
    /\ UNCHANGED <<tree, held, trapped, simple>>

\* Goroutines using single-path and multi-path calls side by side.
NextRound == \E t \in Threads :
    \/ \E p \in ManyPaths : CallLock(t, p)
    \/ CallUnlock(t)
    \/ \E S \in ManySets : \E args \in Perms(S) : CallLockMany(t, args)
    \/ \E args \in Perms(Range(vals[t])) : CallUnlockMany(t, args)
    \/ LockStep(t)
    \/ UnlockStep(t)

SpecRound == Init /\ [][NextRound]_vars

NextMisuse ==
    \/ Next
    \/ \E t \in Threads : \E p \in Paths : CallUnlockUnmatched(t, p)

\* Correct callers together with callers of unmatched unlocks.
SpecMisuse == Init /\ [][NextMisuse]_vars

\* ================================================================ claims
\* The goroutines other than t and u are in no call.
OthersIdle(t, u) == \A w \in Threads \ {t, u} : pc[w] = "idle"

\* Goroutine u is inside Lock(q): called, not yet returned.
InLock(u) ==
    pc[u] \in {"Lock_totalLock", "Lock_locksLock", "Lock_locksUnlock", "Lock_Add",
               "Lock_totalUnlock", "LockAll_totalLock", "LockAll_Wait"}

\* C1: mutual exclusion. No two distinct goroutines hold paths of which one is
\* a prefix of the other (equal paths and the empty path included).
C1_MutualExclusion ==
    \A t \in Threads : \A u \in Threads \ {t} :
        \A p \in held[t] : \A q \in held[u] : ~Related(p, q)

\* C1's case: one goroutine holds ["a"] while another, locking ["a","b"], has
\* reached node a and stands before its gate.
C1_Witness ==
    \E t \in Threads : \E u \in Threads \ {t} :
        /\ <<"a">> \in held[t]
        /\ op[u] = "Lock" /\ Val(u) = <<"a", "b">>
        /\ pc[u] = "Lock_totalLock" /\ depth[u] = 1

\* C2: unrelated paths do not block each other. While t holds p and every
\* goroutine but u is idle, u inside Lock(q), q unrelated to p, always has its
\* next step enabled; Lock(q) is a bounded number of such steps.
C2_UnrelatedNeverBlock ==
    \A t \in Threads : \A u \in Threads \ {t} : \A p \in held[t] :
        (/\ pc[t] = "locked"
         /\ op[u] = "Lock" /\ InLock(u)
         /\ ~Related(p, Val(u))
         /\ OthersIdle(t, u))
        => ENABLED LockStep(u)

\* C2's case: ["a","b","d"] has been locked while ["a","b","c"] is held.
C2_Witness ==
    \E t \in Threads : \E u \in Threads \ {t} :
        /\ <<"a", "b", "c">> \in held[t]
        /\ <<"a", "b", "d">> \in held[u]

\* C3: quiescence barrier. From every state in which a goroutine holds the
\* whole tree (LockAll on the root returned, UnlockAll not called), no other
\* goroutine holds a path, and none comes to hold one in the next step.
C3_QuiescenceBarrier ==
    [][\A t \in Threads : \A u \in Threads \ {t} :
          Root \in held[t] => (held[u] = {} /\ held'[u] = {})]_vars

\* C3's case: LockAll has returned to one goroutine while another, inside
\* Lock, stands before the root's gate.
C3_Witness ==
    \E t \in Threads : \E u \in Threads \ {t} :
        /\ Root \in held[t] /\ op[t] = "LockAll"
        /\ op[u] = "Lock" /\ pc[u] = "Lock_totalLock" /\ depth[u] = 0

\* C4: an unmatched unlock always traps. A goroutine inside an Unlock it has
\* no matching Lock for never leaves that call by returning: the call is
\* still in progress, or has trapped, after every step.
C4_UnmatchedUnlockTraps ==
    [][\A t \in Threads :
          op[t] = "UnmatchedUnlock" => op'[t] = "UnmatchedUnlock"]_vars

\* C5: LockMany/UnlockMany on one common path set never deadlocks. Whatever
\* the argument orders, every LockMany call returns (its caller holds the
\* set) and every UnlockMany call returns; a reachable deadlock would leave a
\* call that never returns.
C5_ManyAlwaysReturns ==
    \A t \in Threads :
        /\ (op[t] = "LockMany") ~> (pc[t] = "locked")
        /\ (op[t] = "UnlockMany") ~> (pc[t] = "idle")

\* C5's case: two goroutines use the set {["a"], ["b"]}: one holds both paths
\* and the other, having passed the root for ["a"], waits at a's gate.
C5_Witness ==
    \E t \in Threads : \E u \in Threads \ {t} :
        /\ op[t] = "LockMany" /\ held[t] = {<<"a">>, <<"b">>}
        /\ op[u] = "LockMany" /\ Range(vals[u]) = {<<"a">>, <<"b">>}
        /\ pc[u] = "LockAll_totalLock" /\ T(u) = <<"a">>

\* C6: round trip. Whenever every goroutine is back from its calls (each
\* Lock matched by its Unlock, each LockMany by its UnlockMany), every node's
\* counter is 0 and every gate and guard is free, as before the calls; only
\* the set of created nodes may have grown.
C6_RoundTrip ==
    (\A t \in Threads : pc[t] = "idle") =>
        /\ totalwg = [n \in Nodes |-> 0]
        /\ totalLock = [n \in Nodes |-> FALSE]
        /\ locksLock = [n \in Nodes |-> FALSE]

\* C6's case: all goroutines are back, and pairs that created the nodes of
\* ["a","b"] and ["b"] have run.
C6_Witness ==
    /\ \A t \in Threads : pc[t] = "idle"
    /\ <<"a", "b">> \in locks /\ <<"b">> \in locks

\* Goroutine t holds the all-lock of the SimpleTreeLock.
SimpleHoldsAll(t) == op[t] = "SimpleLockAll" /\ pc[t] = "locked"

\* C7: SimpleTreeLock mutual exclusion. No two goroutines hold the same key,
\* and no goroutine holds a key while another holds the all-lock.
C7_SimpleMutualExclusion ==
    \A t \in Threads : \A u \in Threads \ {t} :
        /\ held[t] \cap held[u] = {}
        /\ SimpleHoldsAll(t) => held[u] = {}

\* C8: SimpleTreeLock multi-key round trip. UnlockMany called by the holder
\* of its keys does not trap, and once it has returned with every goroutine
\* idle the counter is 0 and every key mutex is unlocked, as before LockMany.
C8_SimpleManyRoundTrip ==
    /\ \A t \in Threads : op[t] = "SimpleUnlockMany" => pc[t] # "trap"
    /\ (\A t \in Threads : pc[t] = "idle") =>
           (sTotalwg = 0 /\ \A k \in Keys : sLocks[k] # "locked")

\* Goroutine t is inside a release call.
Releasing(t) ==
    op[t] \in {"Unlock", "UnlockAll", "UnlockMany",
               "SimpleUnlock", "SimpleUnlockMany", "SimpleUnlockAll"}

\* Goroutine u is inside a mutex-protected section that holds no blocking
\* statement: it leaves the section by its own steps.
InCriticalSection(u) ==
    pc[u] \in {"Lock_locksUnlock", "Unlock_locksUnlock", "Lock_locksLock", "Lock_Add",
               "Lock_totalUnlock",
               "SimpleLock_Add", "SimpleLock_totalUnlock", "SimpleUnlock_totalUnlock",
               "SimpleLockMany_Add", "SimpleLockMany_totalUnlock",
               "SimpleUnlockMany_Unlock", "SimpleUnlockMany_Done",
               "SimpleUnlockMany_totalUnlock"}

\* C9: only acquisitions block. A goroutine inside Unlock, UnlockMany or
\* UnlockAll can take its next step, or waits for a mutex that another
\* goroutine holds for a critical section it leaves by itself; it never waits
\* for what only another goroutine's unlock (or a pending LockAll) gives back.
C9_ReleaseNeverWaits ==
    \A t \in Threads :
        (Releasing(t) /\ ~trapped) =>
            \/ ENABLED (UnlockStep(t) \/ SimpleReleaseStep(t))
            \/ \E u \in Threads \ {t} : InCriticalSection(u)

\* C10: deadlock freedom of single-path use. With goroutines that hold one
\* path (or the whole tree) at a time and are run fairly, every Lock and
\* LockAll call returns; a reachable deadlock would leave one that never does.
C10_LockAlwaysReturns ==
    \A t \in Threads : InLock(t) ~> (pc[t] = "locked")

\* C10's case: one goroutine holds ["a","b"]; another has taken a's gate for
\* Lock(["a"]) and waits for a's counter to drain.
C10_Witness ==
    \E t \in Threads : \E u \in Threads \ {t} :
        /\ held[t] = {<<"a", "b">>}
        /\ op[u] = "Lock" /\ Val(u) = <<"a">> /\ pc[u] = "LockAll_Wait"

\* C11: factory keying. Every node that exists was made with the generators
\* called on its full path from the root.
C11_FactoryKeying == \A n \in locks : GeneratorPath(n) = n

\* The first index at which p and q differ, 0 when one is a prefix of the other.
FirstDiff(p, q) ==
    LET m == IF Len(p) < Len(q) THEN Len(p) ELSE Len(q)
        D == { k \in 1..m : p[k] # q[k] }
    IN  IF D = {} THEN 0 ELSE CHOOSE k \in D : \A j \in D : k <= j

\* C12: Less is a strict total order with the prefix first. Over the paths of
\* every argument list it is irreflexive and transitive, of two distinct
\* paths exactly one is Less than the other, the first differing segment
\* decides, a proper prefix is Less than its extensions; and the sorted lists
\* of all callers that passed the same paths are one and the same sequence,
\* ascending.
C12_LessStrictTotalOrder ==
    /\ \A p \in Range(vals[1]) : \A q \in Range(vals[1]) :
          /\ ~Less(p, p)
          /\ (p # q) => (Less(p, q) # Less(q, p))
          /\ (FirstDiff(p, q) # 0) =>
                (Less(p, q) <=> Byte(p[FirstDiff(p, q)]) < Byte(q[FirstDiff(p, q)]))
          /\ (FirstDiff(p, q) = 0) => (Less(p, q) <=> Len(p) < Len(q))
          /\ Less(p, q) => \A r \in Range(vals[1]) : Less(q, r) => Less(p, r)
    /\ \A t \in Threads : pc[t] = "sorted" =>
          /\ \A i, j \in DOMAIN vals[t] : i < j => ~Less(vals[t][j], vals[t][i])
          /\ \A u \in Threads : pc[u] = "sorted" => vals[u] = vals[t]

\* C12's case: two callers passed ["a"], ["a","b"], ["b"] in different orders
\* and both have sorted them.
C12_Witness ==
    \E t \in Threads : \E u \in Threads \ {t} :
        /\ pc[t] = "sorted" /\ pc[u] = "sorted"
        /\ vals[t] = << <<"a">>, <<"a", "b">>, <<"b">> >>
        /\ vals[u] = vals[t]

\* C13: LockMany is deadlock-free across different path sets. Whenever some
\* goroutine is inside LockMany .. UnlockMany, some goroutine can take a step
\* of its call or call the UnlockMany that follows.
C13_OwnSetsNoDeadlock ==
    (~trapped /\ \E t \in Threads : pc[t] # "idle") =>
        \E t \in Threads : ENABLED ManyProgress(t)

\* C14: LockMany coexists with ancestor locks. A goroutine inside LockMany ..
\* UnlockMany on two or more paths and a goroutine inside Lock .. Unlock of a
\* common ancestor, or LockAll .. UnlockAll, are never both stopped: one of
\* them can take a step of its call or make the release that follows.
C14_AncestorNoDeadlock ==
    \A t \in Threads : \A u \in Threads \ {t} :
        (/\ ~trapped
         /\ op[t] = "LockMany"
         /\ op[u] \in {"Lock", "LockAll"}
         /\ OthersIdle(t, u))
        => (ENABLED AnyProgress(t) \/ ENABLED AnyProgress(u))

\* Goroutine t's LockAll on the node T(t) returns in this step.
LockAllReturns(t) == pc[t] = "LockAll_Wait" /\ pc'[t] # "LockAll_Wait"

\* Node n lies strictly below node N.
Below(N, n) == IsPrefix(N, n) /\ n # N

\* C15 as stated: full drain of the subtree. When LockAll on a node N returns,
\* every node below N has counter 0 and a free gate.
C15_FullDrain ==
    [][\A t \in Threads : LockAllReturns(t) =>
          \A n \in Nodes : Below(T(t), n) => (totalwg[n] = 0 /\ ~totalLock[n])]_vars

\* C15 amended: when LockAll on a node N returns, N's own counter is 0, no
\* other goroutine holds a path at or below N, and none is inside a Lock
\* below N; an Unlock that has passed N may still be on its way down.
C15_DrainAtNode ==
    [][\A t \in Threads : LockAllReturns(t) =>
          /\ totalwg[T(t)] = 0
          /\ \A u \in Threads \ {t} :
                /\ \A q \in held[u] : ~IsPrefix(T(t), q)
                /\ InLock(u) => ~Below(T(t), T(u))]_vars

\* C15's case: LockAll on the root has returned to one goroutine while
\* another, inside Unlock(["a","b"]), has decremented the root's counter
\* only.
C15_Witness ==
    \E t \in Threads : \E u \in Threads \ {t} :
        /\ Root \in held[t]
        /\ op[u] = "Unlock" /\ Val(u) = <<"a", "b">>
        /\ totalwg[Root] = 0 /\ totalwg[<<"a">>] = 1 /\ totalLock[<<"a", "b">>]

\* Goroutine u's call in progress is a session counted at node n: its Lock
\* has done Add at n (it is past n, or at n between Add and the descent), or
\* its Unlock has not done Done at n yet (it is above n, or at n before Done).
LockCounted(u, n) ==
    /\ InLock(u) /\ Below(n, Val(u))
    /\ \/ Len(n) < depth[u]
       \/ Len(n) = depth[u] /\ pc[u] = "Lock_totalUnlock"

UnlockCounted(u, n) ==
    /\ op[u] # "UnmatchedUnlock"
    /\ pc[u] \in {"Unlock_Done", "Unlock_locksLock", "Unlock_locksUnlock",
                  "UnlockAll_totalUnlock"}
    /\ Below(n, Val(u))
    /\ \/ Len(n) > depth[u]
       \/ Len(n) = depth[u] /\ pc[u] = "Unlock_Done"

\* The number of sessions counted at n: the paths held below n, and the calls
\* in progress counted at n.
Sessions(n) ==
    Cardinality({ uq \in Threads \X Nodes : uq[2] \in held[uq[1]] /\ Below(n, uq[2]) })
    + Cardinality({ u \in Threads : LockCounted(u, n) })
    + Cardinality({ u \in Threads : UnlockCounted(u, n) })

\* C16: counter invariant. Under matched use every node's counter is
\* non-negative and is the number of sessions that have incremented it and
\* not yet decremented it.
C16_CounterInvariant ==
    \A n \in Nodes : totalwg[n] >= 0 /\ totalwg[n] = Sessions(n)

\* C16's case: node a counts two sessions, one held by a LockMany caller that
\* is on its way to a second path, one of a Lock between Add and descent.
C16_Witness ==
    \E t \in Threads : \E u \in Threads \ {t} :
        /\ op[t] = "LockMany" /\ <<"a", "b">> \in held[t] /\ InLock(t)
        /\ op[u] = "Lock" /\ Val(u) = <<"a", "b">>
        /\ pc[u] = "Lock_totalUnlock" /\ depth[u] = 1
        /\ totalwg[<<"a">>] = 2

\* C17: full lock implies zero count. A goroutine about to count its session
\* at a node holds that node's gate, so no LockAll on the node can come in
\* between; and as long as a node is fully locked (it is the terminal node of
\* a held path) its counter is 0.
C17_FullLockZeroCount ==
    \A t \in Threads :
        /\ pc[t] = "Lock_Add" => totalLock[T(t)]
        /\ \A n \in held[t] : totalwg[n] = 0 /\ totalLock[n]

\* C17's case: node a.b is fully locked while another goroutine, counted at
\* the root and at a, stands before a.b's gate on its way to ["a","b","c"].
C17_Witness ==
    \E t \in Threads : \E u \in Threads \ {t} :
        /\ <<"a", "b">> \in held[t]
        /\ op[u] = "Lock" /\ Val(u) = <<"a", "b", "c">>
        /\ pc[u] = "Lock_totalLock" /\ T(u) = <<"a", "b">>
        /\ totalwg[<<"a">>] = 2

\* Goroutine t is inside Unlock(p): called, not yet returned.
InUnlock(t) ==
    pc[t] \in {"Unlock_Done", "Unlock_locksLock", "Unlock_locksUnlock",
               "UnlockAll_totalUnlock"}

\* The sessions counted at node n apart from the call goroutine t is in.
SessionsBeside(t, n) ==
    Cardinality({ uq \in Threads \X Nodes : uq[2] \in held[uq[1]] /\ Below(n, uq[2]) })
    + Cardinality({ u \in Threads \ {t} : LockCounted(u, n) })
    + Cardinality({ u \in Threads \ {t} : UnlockCounted(u, n) })

\* C18: Unlock is decrement-then-recurse. While Unlock(p) is at depth d, the
\* counters of the nodes above depth d along p no longer count its session,
\* the counter at depth d counts it until Done there, the counters further
\* down still count it, and the gate of p's last node is still locked; each
\* step of the call changes the counter or gate of the node it is at and no
\* other, and the call only ever moves one level down.
C18_DecrementThenRecurse ==
    /\ [](\A t \in Threads : InUnlock(t) =>
            /\ totalLock[Val(t)]
            /\ \A n \in Nodes : Below(n, Val(t)) =>
                  totalwg[n] = SessionsBeside(t, n)
                    + (IF \/ Len(n) > depth[t]
                          \/ Len(n) = depth[t] /\ pc[t] = "Unlock_Done"
                         THEN 1 ELSE 0))
    /\ [][\A t \in Threads : (InUnlock(t) /\ pc'[t] # pc[t]) =>
            /\ \A n \in Nodes \ {T(t)} : totalwg'[n] = totalwg[n] /\ totalLock'[n] = totalLock[n]
            /\ totalLock'[T(t)] # totalLock[T(t)] => T(t) = Val(t)
            /\ InUnlock(t)' => depth'[t] \in {depth[t], depth[t] + 1}]_vars

\* C18's case: Unlock(["a","b","c"]) has decremented the root and a, and is
\* about to decrement a.b, while another goroutine holds ["a","b","d"].
C18_Witness ==
    \E t \in Threads : \E u \in Threads \ {t} :
        /\ op[t] = "Unlock" /\ Val(t) = <<"a", "b", "c">>
        /\ pc[t] = "Unlock_Done" /\ depth[t] = 2
        /\ <<"a", "b", "d">> \in held[u]
        /\ totalwg[Root] = 1 /\ totalwg[<<"a">>] = 1 /\ totalwg[<<"a", "b">>] = 2

\* C19: an overlapping LockMany blocks for ever, undetected. The call never
\* returns and nothing traps; and when it can take no further step it stands
\* before a gate that is locked and is the gate of a path it holds itself.
C19_OverlapBlocksForever ==
    \A t \in Threads : op[t] = "LockMany" =>
        /\ ~trapped /\ pc[t] \notin {"locked", "idle", "trap"}
        /\ ~ENABLED LockStep(t) =>
              /\ pc[t] \in {"Lock_totalLock", "LockAll_totalLock"}
              /\ totalLock[T(t)] /\ T(t) \in held[t]

\* C19's case: LockMany(["a","b"], ["b"], ["a"]) holds ["a"] and stands, for
\* ["a","b"], before a's gate.
C19_Witness ==
    \E t \in Threads :
        /\ op[t] = "LockMany" /\ Len(vals[t]) = 3 /\ vi[t] = 2
        /\ held[t] = {<<"a">>} /\ Val(t) = <<"a", "b">>
        /\ pc[t] = "Lock_totalLock" /\ T(t) = <<"a">>
        /\ ~ENABLED LockStep(t)

\* C20: a trapped Unlock does not corrupt the counters. The step in which an
\* unmatched Unlock traps changes no counter and no gate, and leaves every
\* counter equal to the number of sessions of the matched calls.
C20_TrapLeavesCounters ==
    [][\A t \in Threads :
          (op[t] = "UnmatchedUnlock" /\ pc[t] # "trap" /\ pc'[t] = "trap") =>
              /\ totalwg' = totalwg /\ totalLock' = totalLock
              /\ \A n \in Nodes : totalwg'[n] = Sessions(n)']_vars

====
